---- MODULE Spec2Model ----
(***************************************************************************)
(* Data Processing System (go/main.go, java/DataProcessingSystem.java).    *)
(*                                                                         *)
(* A Coordinator (main) preloads NUM_TASKS tasks into a TaskQueue, starts  *)
(* NUM_WORKERS workers, waits for them on a WaitGroup and shuts down.  The *)
(* workers drain the queue, compute a result per task, append it to the    *)
(* shared ResultWriter and log every step to the shared Logger.  Both      *)
(* sinks are guarded by a mutex each.  A closer goroutine closes the       *)
(* channel some time after the workers were started.                       *)
(*                                                                         *)
(* Threads are numbered: 0 is main, 1..NUM_WORKERS are the workers.        *)
(***************************************************************************)
EXTENDS Integers, Sequences, FiniteSets, TLC

\* Bound of the model: the configurations explored are those with
\* NUM_WORKERS >= 1, NUM_TASKS >= 0 and NUM_TASKS + 2 * NUM_WORKERS <= MaxLoad
\* (a worker adds about as many interleavings as two tasks do).
MaxLoad == 5

\* Bounds of the specification with failing log writes: the configurations
\* with NUM_TASKS + 2 * NUM_WORKERS <= FaultLoad, and at most MaxLogFaults
\* failed writes to processing.log while it is open.
FaultLoad == 4
MaxLogFaults == 1

\* Bound of the specification of the Java implementation: the configurations
\* with NUM_TASKS + 2 * NUM_WORKERS <= JavaLoad.
JavaLoad == 3

\* Bound of the specification of failure-free runs of two workers: the
\* configurations with NUM_WORKERS = 2 and NUM_TASKS <= PairTasks.
PairTasks == 2

VARIABLES
    NUM_WORKERS,     \* main.go:16, number of workers of this run
    NUM_TASKS,       \* main.go:17, number of tasks of this run
    tasks,           \* TaskQueue.tasks: the channel's buffer, a sequence of Task
    closed,          \* TaskQueue.tasks: TRUE once close(tq.tasks) has run
    panicked,        \* TRUE once the runtime has panicked (send on or close of a closed channel)
    mainPC,          \* position of main
    mainI,           \* loop variable i of preloadTasks and of main's start loop
    closerPC,        \* position of the closer goroutine of main
    wgCount,         \* sync.WaitGroup counter
    pc,              \* pc[w]: position of worker w in Worker.Run
    task,            \* task[w]: the task worker w holds (zero Task when none)
    result,          \* result[w]: the result line processTask returned to worker w
    tasksProcessed,  \* tasksProcessed[w]: local counter of Worker.Run
    held,            \* held[t]: the mutexes thread t has locked and not yet unlocked
    rwMutex,         \* ResultWriter.mutex: TRUE when locked
    rwOpen,          \* ResultWriter.file is open
    results,         \* contents of results.txt, a sequence of lines
    logMutex,        \* Logger.mutex: TRUE when locked
    logOpen,         \* Logger.file is open
    log,             \* contents of processing.log, a sequence of entries
    stderr,          \* number of "Failed to write log" reports on standard error
    interrupted,     \* interrupted[w]: interrupt status of worker w's thread (Java)
    delivered        \* history: <<task id, worker>> of every successful GetTask, in order

vars == <<NUM_WORKERS, NUM_TASKS, tasks, closed, panicked, mainPC, mainI, closerPC,
          wgCount, pc, task, result, tasksProcessed, held, rwMutex, rwOpen, results,
          logMutex, logOpen, log, stderr, interrupted, delivered>>

configVars == <<NUM_WORKERS, NUM_TASKS>>
queueVars  == <<tasks, closed, panicked, delivered>>
mainVars   == <<mainPC, mainI>>
workerVars == <<pc, task, result, tasksProcessed, interrupted>>
rwVars     == <<rwMutex, rwOpen, results>>
logVars    == <<logMutex, logOpen, log, stderr>>

Main == 0
Workers == 1..NUM_WORKERS
Threads == 0..NUM_WORKERS

----------------------------------------------------------------------------
(* Task *)

\* The zero value of Task, what a receive from a closed, empty channel yields.
ZeroTask == [ID |-> 0, DataValue |-> 0]

\* The zero value of the result string.
NoResult == [ID |-> 0, Worker |-> 0, Original |-> 0, Processed |-> 0]

\* Faulty preload: the ids are handed out in descending order.
PreloadTaskDescending(i) == [ID |-> NUM_TASKS + 1 - i, DataValue |-> (NUM_TASKS + 1 - i) * 100]

\* Faulty preload: ids counted from 0.
PreloadTaskFromZero(i) == [ID |-> i - 1, DataValue |-> (i - 1) * 100]

\* The task preloadTasks builds in iteration i.
PreloadTask(i) == [ID |-> i, DataValue |-> i * 100]

\* Faulty construction: the channel is one slot short.
CapacityOneShort == NUM_TASKS - 1

\* The capacity main gives the channel.
Capacity == NUM_TASKS

----------------------------------------------------------------------------
(* TaskQueue: a buffered channel *)

\* tq.tasks <- task can proceed: the buffer has room (or the channel is closed,
\* in which case the send panics).
SendReady(buf, cl) == cl \/ Len(buf) < Capacity

\* Faulty receive: the received task stays in the buffer.
GetTaskPeek(buf, cl) ==
    IF Len(buf) > 0
    THEN [blocked |-> FALSE, ok |-> TRUE, task |-> Head(buf), rest |-> buf]
    ELSE IF cl
    THEN [blocked |-> FALSE, ok |-> FALSE, task |-> ZeroTask, rest |-> buf]
    ELSE [blocked |-> TRUE, ok |-> FALSE, task |-> ZeroTask, rest |-> buf]

\* Faulty receive: an empty channel never reports "no task", closed or not.
GetTaskNoCloseSignal(buf, cl) ==
    IF Len(buf) > 0
    THEN [blocked |-> FALSE, ok |-> TRUE, task |-> Head(buf), rest |-> Tail(buf)]
    ELSE [blocked |-> TRUE, ok |-> FALSE, task |-> ZeroTask, rest |-> buf]

\* Faulty receive: a non-blocking poll, "no task" whenever the buffer is empty.
GetTaskPoll(buf, cl) ==
    IF Len(buf) > 0
    THEN [blocked |-> FALSE, ok |-> TRUE, task |-> Head(buf), rest |-> Tail(buf)]
    ELSE [blocked |-> FALSE, ok |-> FALSE, task |-> ZeroTask, rest |-> buf]

\* Faulty receive: the closed flag is tested before the buffer.
GetTaskClosedFirst(buf, cl) ==
    IF cl
    THEN [blocked |-> FALSE, ok |-> FALSE, task |-> ZeroTask, rest |-> buf]
    ELSE IF Len(buf) > 0
    THEN [blocked |-> FALSE, ok |-> TRUE, task |-> Head(buf), rest |-> Tail(buf)]
    ELSE [blocked |-> TRUE, ok |-> FALSE, task |-> ZeroTask, rest |-> buf]

\* Faulty receive: the newest task of the buffer is received (a stack).
GetTaskLast(buf, cl) ==
    IF Len(buf) > 0
    THEN [blocked |-> FALSE, ok |-> TRUE, task |-> buf[Len(buf)],
          rest |-> SubSeq(buf, 1, Len(buf) - 1)]
    ELSE IF cl
    THEN [blocked |-> FALSE, ok |-> FALSE, task |-> ZeroTask, rest |-> buf]
    ELSE [blocked |-> TRUE, ok |-> FALSE, task |-> ZeroTask, rest |-> buf]

\* task, ok := <-tq.tasks.  A buffered task is received also after close; a
\* closed and empty channel yields the zero value and ok = false; an open and
\* empty channel blocks the receiver.
GetTask(buf, cl) ==
    IF Len(buf) > 0
    THEN [blocked |-> FALSE, ok |-> TRUE, task |-> Head(buf), rest |-> Tail(buf)]
    ELSE IF cl
    THEN [blocked |-> FALSE, ok |-> FALSE, task |-> ZeroTask, rest |-> buf]
    ELSE [blocked |-> TRUE, ok |-> FALSE, task |-> ZeroTask, rest |-> buf]

----------------------------------------------------------------------------
(* sync.Mutex and sync.WaitGroup *)

\* Faulty mutex: Lock never waits.
MutexNeverWaits(locked) == TRUE

\* mutex.Lock() can proceed only when the mutex is unlocked.
MutexLockable(locked) == ~locked

\* Faulty wait: returns while one worker is still running.
WgWaitReturnsEarly(c) == c <= 1

\* Faulty wait: does not wait at all.
WgWaitReturnsAtOnce(c) == c >= 0

\* wg.Wait() returns when the counter is zero.
WgWaitReturns(c) == c = 0

\* Faulty Done: the counter is decremented twice.
WgDoneTwice(c) == c - 2

\* wg.Done() decrements the counter.
WgDone(c) == c - 1

----------------------------------------------------------------------------
(* Logger.Log: Lock, then write the entry and unlock (deferred) *)

Entry(msg, who, arg) == [msg |-> msg, who |-> who, arg |-> arg]

\* Log: l.mutex.Lock()
LogLock(t) ==
    /\ "log" \notin held[t]
    /\ MutexLockable(logMutex)
    /\ logMutex' = TRUE
    /\ held' = [held EXCEPT ![t] = @ \cup {"log"}]
    /\ UNCHANGED <<logOpen, log, stderr>>

\* Log: l.file.WriteString(logEntry), then the deferred l.mutex.Unlock().
\* A write to a closed file fails and the entry is lost (reported on stderr).
LogWrite(t, e) ==
    /\ "log" \in held[t]
    /\ log' = IF logOpen THEN Append(log, e) ELSE log
    /\ stderr' = IF logOpen THEN stderr ELSE stderr + 1
    /\ logMutex' = FALSE
    /\ held' = [held EXCEPT ![t] = @ \ {"log"}]
    /\ UNCHANGED logOpen

----------------------------------------------------------------------------
(* Worker.Run *)

\* The places of Worker.Run where the worker calls Logger.Log.
WorkerLogSites == {"started", "processing", "compute_err", "write_err",
                   "completed", "empty", "finished"}

\* Faulty report: the "finished" entry carries the id of the current task
\* instead of the counter.
WorkerEntryWrongCount(w) ==
    IF pc[w] \in {"started", "empty"} THEN Entry(pc[w], w, 0)
    ELSE Entry(pc[w], w, task[w].ID)

\* The entry the worker logs at each place.
WorkerEntry(w) ==
    IF pc[w] = "finished" THEN Entry("finished", w, tasksProcessed[w])
    ELSE IF pc[w] \in {"started", "empty"} THEN Entry(pc[w], w, 0)
    ELSE Entry(pc[w], w, task[w].ID)

\* Faulty loop: a failed result write ends the loop (break instead of continue).
AfterLogBreakOnError(site) ==
    CASE site = "started"     -> "fetch"
      [] site = "processing"  -> "compute"
      [] site = "compute_err" -> "fetch"
      [] site = "write_err"   -> "finished"
      [] site = "completed"   -> "fetch"
      [] site = "empty"       -> "finished"
      [] site = "finished"    -> "wg_done"

\* Faulty loop: a failed result write is retried.
AfterLogRetryOnError(site) ==
    CASE site = "started"     -> "fetch"
      [] site = "processing"  -> "compute"
      [] site = "compute_err" -> "fetch"
      [] site = "write_err"   -> "emit"
      [] site = "completed"   -> "fetch"
      [] site = "empty"       -> "finished"
      [] site = "finished"    -> "wg_done"

\* Where Worker.Run goes after the Log call of each place.
AfterLog(site) ==
    CASE site = "started"     -> "fetch"
      [] site = "processing"  -> "compute"
      [] site = "compute_err" -> "fetch"      \* continue
      [] site = "write_err"   -> "fetch"      \* continue
      [] site = "completed"   -> "fetch"      \* end of the loop body
      [] site = "empty"       -> "finished"   \* break
      [] site = "finished"    -> "wg_done"    \* return, deferred Done

\* Faulty transform: the result depends on which worker computes it.
processTaskWorkerDependent(w, t) ==
    [result |-> [ID |-> t.ID, Worker |-> w, Original |-> t.DataValue,
                 Processed |-> t.DataValue * 2 + t.ID * w],
     err |-> FALSE]

\* Faulty transform: the id is added before doubling.
processTaskWrongFormula(w, t) ==
    [result |-> [ID |-> t.ID, Worker |-> w, Original |-> t.DataValue,
                 Processed |-> (t.DataValue + t.ID) * 2],
     err |-> FALSE]

\* processTask: the result line and the error (always nil).
processTask(w, t) ==
    [result |-> [ID |-> t.ID, Worker |-> w, Original |-> t.DataValue,
                 Processed |-> t.DataValue * 2 + t.ID],
     err |-> FALSE]

WorkerLogLock(w) ==
    /\ pc[w] \in WorkerLogSites
    /\ LogLock(w)
    /\ UNCHANGED <<configVars, queueVars, mainVars, closerPC, wgCount, workerVars, rwVars>>

WorkerLogWrite(w) ==
    /\ pc[w] \in WorkerLogSites
    /\ LogWrite(w, WorkerEntry(w))
    /\ pc' = [pc EXCEPT ![w] = AfterLog(pc[w])]
    \* task and result are scoped to one iteration of the loop
    /\ task' = [task EXCEPT ![w] = IF AfterLog(pc[w]) = "fetch" THEN ZeroTask ELSE @]
    /\ result' = [result EXCEPT ![w] = IF AfterLog(pc[w]) = "fetch" THEN NoResult ELSE @]
    /\ UNCHANGED <<configVars, interrupted, queueVars, mainVars, closerPC, wgCount, tasksProcessed, rwVars>>

\* task, ok := w.TaskQueue.GetTask(); if !ok { ... break }
WorkerGetTask(w) ==
    /\ pc[w] = "fetch"
    /\ LET r == GetTask(tasks, closed) IN
         /\ ~r.blocked
         /\ tasks' = r.rest
         /\ task' = [task EXCEPT ![w] = r.task]
         /\ pc' = [pc EXCEPT ![w] = IF r.ok THEN "processing" ELSE "empty"]
         /\ delivered' = IF r.ok THEN Append(delivered, <<r.task.ID, w>>) ELSE delivered
    /\ UNCHANGED <<configVars, interrupted, closed, panicked, mainVars, closerPC, wgCount,
                   result, tasksProcessed, held, rwVars, logVars>>

\* result, err := w.processTask(task); if err != nil { Log; continue }; tasksProcessed++
\* processTask itself never fails; a failing transform is injected here.
WorkerProcessTask(w) ==
    /\ pc[w] = "compute"
    /\ \E injected \in BOOLEAN :
         LET r == processTask(w, task[w]) IN
           IF r.err \/ injected
           THEN /\ pc' = [pc EXCEPT ![w] = "compute_err"]
                /\ UNCHANGED <<result, tasksProcessed>>
           ELSE /\ pc' = [pc EXCEPT ![w] = "emit"]
                /\ result' = [result EXCEPT ![w] = r.result]
                /\ tasksProcessed' = [tasksProcessed EXCEPT ![w] = @ + 1]
    /\ UNCHANGED <<configVars, interrupted, queueVars, mainVars, closerPC, wgCount, task, held, rwVars, logVars>>

\* WriteResult: rw.mutex.Lock()
WorkerWriteResultLock(w) ==
    /\ pc[w] = "emit"
    /\ "rw" \notin held[w]
    /\ MutexLockable(rwMutex)
    /\ rwMutex' = TRUE
    /\ held' = [held EXCEPT ![w] = @ \cup {"rw"}]
    /\ UNCHANGED <<configVars, queueVars, mainVars, closerPC, wgCount, workerVars,
                   rwOpen, results, logVars>>

\* Faulty WriteResult: the mutex is not unlocked on return.
WorkerWriteResultWriteNoUnlock(w) ==
    /\ pc[w] = "emit"
    /\ "rw" \in held[w]
    /\ \E ioError \in BOOLEAN :
         LET err == ioError \/ ~rwOpen IN
           /\ results' = IF err THEN results ELSE Append(results, result[w])
           /\ pc' = [pc EXCEPT ![w] = IF err THEN "write_err" ELSE "completed"]
    /\ UNCHANGED <<configVars, interrupted, queueVars, mainVars, closerPC, wgCount, task, result,
                   tasksProcessed, held, rwMutex, rwOpen, logVars>>

\* Faulty WriteResult: the write error is not returned, the caller goes on as
\* after a successful write.
WorkerWriteResultWriteSwallow(w) ==
    /\ pc[w] = "emit"
    /\ "rw" \in held[w]
    /\ \E ioError \in BOOLEAN :
         LET err == ioError \/ ~rwOpen IN
           /\ results' = IF err THEN results ELSE Append(results, result[w])
           /\ pc' = [pc EXCEPT ![w] = "completed"]
    /\ rwMutex' = FALSE
    /\ held' = [held EXCEPT ![w] = @ \ {"rw"}]
    /\ UNCHANGED <<configVars, interrupted, queueVars, mainVars, closerPC, wgCount, task, result,
                   tasksProcessed, rwOpen, logVars>>

\* Faulty WriteResult: a failed write takes the task back out of the count.
WorkerWriteResultWriteRollback(w) ==
    /\ pc[w] = "emit"
    /\ "rw" \in held[w]
    /\ \E ioError \in BOOLEAN :
         LET err == ioError \/ ~rwOpen IN
           /\ results' = IF err THEN results ELSE Append(results, result[w])
           /\ pc' = [pc EXCEPT ![w] = IF err THEN "write_err" ELSE "completed"]
           /\ tasksProcessed' = [tasksProcessed EXCEPT ![w] = IF err THEN @ - 1 ELSE @]
    /\ rwMutex' = FALSE
    /\ held' = [held EXCEPT ![w] = @ \ {"rw"}]
    /\ UNCHANGED <<configVars, interrupted, queueVars, mainVars, closerPC, wgCount, task, result,
                   rwOpen, logVars>>

\* Faulty WriteResult: the error return path skips the Unlock.
WorkerWriteResultWriteLeak(w) ==
    /\ pc[w] = "emit"
    /\ "rw" \in held[w]
    /\ \E ioError \in BOOLEAN :
         LET err == ioError \/ ~rwOpen IN
           /\ results' = IF err THEN results ELSE Append(results, result[w])
           /\ pc' = [pc EXCEPT ![w] = IF err THEN "write_err" ELSE "completed"]
           /\ rwMutex' = err
           /\ held' = [held EXCEPT ![w] = IF err THEN @ ELSE @ \ {"rw"}]
    /\ UNCHANGED <<configVars, interrupted, queueVars, mainVars, closerPC, wgCount, task, result,
                   tasksProcessed, rwOpen, logVars>>

\* WriteResult: fmt.Fprintln(rw.file, result), the deferred Unlock, and the
\* caller's test of the returned error.  The write fails when the file is
\* closed or when the operating system reports an error.
WorkerWriteResultWrite(w) ==
    /\ pc[w] = "emit"
    /\ "rw" \in held[w]
    /\ \E ioError \in BOOLEAN :
         LET err == ioError \/ ~rwOpen IN
           /\ results' = IF err THEN results ELSE Append(results, result[w])
           /\ pc' = [pc EXCEPT ![w] = IF err THEN "write_err" ELSE "completed"]
    /\ rwMutex' = FALSE
    /\ held' = [held EXCEPT ![w] = @ \ {"rw"}]
    /\ UNCHANGED <<configVars, interrupted, queueVars, mainVars, closerPC, wgCount, task, result,
                   tasksProcessed, rwOpen, logVars>>

\* defer w.WaitGroup.Done()
WorkerDone(w) ==
    /\ pc[w] = "wg_done"
    /\ wgCount' = WgDone(wgCount)
    /\ pc' = [pc EXCEPT ![w] = "terminated"]
    /\ UNCHANGED <<configVars, interrupted, queueVars, mainVars, closerPC, task, result, tasksProcessed,
                   held, rwVars, logVars>>

----------------------------------------------------------------------------
(* main and preloadTasks *)

\* The places of main (and of the functions it calls) where it calls Logger.Log.
MainLogSites == {"init", "task_added", "starting", "all_completed", "summary_err", "shutdown"}

MainEntry ==
    IF mainPC = "task_added" THEN Entry("task_added", Main, mainI)
    ELSE IF mainPC = "starting" THEN Entry("starting", Main, NUM_WORKERS)
    ELSE Entry(mainPC, Main, 0)

\* Faulty shutdown: after a failed summary the result writer is not closed.
MainAfterLogSkipResultClose(site) ==
    CASE site = "init"          -> "add_task"
      [] site = "task_added"    -> "add_task"
      [] site = "starting"      -> "spawn"
      [] site = "all_completed" -> "summary"
      [] site = "summary_err"   -> "shutdown"
      [] site = "shutdown"      -> "logger_close"

MainAfterLog(site) ==
    CASE site = "init"          -> "add_task"
      [] site = "task_added"    -> "add_task"
      [] site = "starting"      -> "spawn"
      [] site = "all_completed" -> "summary"
      [] site = "summary_err"   -> "rw_close"
      [] site = "shutdown"      -> "logger_close"

MainLogLock ==
    /\ mainPC \in MainLogSites
    /\ LogLock(Main)
    /\ UNCHANGED <<configVars, queueVars, mainVars, closerPC, wgCount, workerVars, rwVars>>

MainLogWrite ==
    /\ mainPC \in MainLogSites
    /\ LogWrite(Main, MainEntry)
    /\ mainPC' = MainAfterLog(mainPC)
    /\ mainI' = IF mainPC \in {"task_added", "starting"} THEN
                   (IF mainPC = "starting" THEN 1 ELSE mainI + 1)
                ELSE mainI
    /\ UNCHANGED <<configVars, queueVars, closerPC, wgCount, workerVars, rwVars>>

\* preloadTasks: for i := 1; i <= NUM_TASKS; i++ { taskQueue.AddTask(task) ... }
MainAddTask ==
    /\ mainPC = "add_task"
    /\ mainI <= NUM_TASKS
    /\ SendReady(tasks, closed)
    /\ IF closed
       THEN /\ panicked' = TRUE
            /\ mainPC' = "crashed"
            /\ UNCHANGED tasks
       ELSE /\ tasks' = Append(tasks, PreloadTask(mainI))
            /\ mainPC' = "task_added"
            /\ UNCHANGED panicked
    /\ UNCHANGED <<configVars, closed, delivered, mainI, closerPC, wgCount,
                   workerVars, held, rwVars, logVars>>

\* Faulty preload: the loop ends one iteration early.
MainPreloadDoneEarly ==
    /\ mainPC = "add_task"
    /\ mainI >= NUM_TASKS
    /\ mainPC' = "starting"
    /\ UNCHANGED <<configVars, queueVars, mainI, closerPC, wgCount, workerVars, held,
                   rwVars, logVars>>

\* preloadTasks: the loop ends
MainPreloadDone ==
    /\ mainPC = "add_task"
    /\ mainI > NUM_TASKS
    /\ mainPC' = "starting"
    /\ UNCHANGED <<configVars, queueVars, mainI, closerPC, wgCount, workerVars, held,
                   rwVars, logVars>>

\* main: for i := 1; i <= NUM_WORKERS; i++ { wg.Add(1); go worker.Run() }
MainSpawn ==
    /\ mainPC = "spawn"
    /\ mainI <= NUM_WORKERS
    /\ wgCount' = wgCount + 1
    /\ pc' = [pc EXCEPT ![mainI] = "started"]
    /\ mainI' = mainI + 1
    /\ UNCHANGED <<configVars, interrupted, queueVars, mainPC, closerPC, task, result, tasksProcessed,
                   held, rwVars, logVars>>

\* main: go func() { time.Sleep(100 * time.Millisecond); taskQueue.Close() }()
MainSpawnCloser ==
    /\ mainPC = "spawn"
    /\ mainI > NUM_WORKERS
    /\ closerPC' = "sleeping"
    /\ mainPC' = "wait"
    /\ UNCHANGED <<configVars, queueVars, mainI, wgCount, workerVars, held, rwVars, logVars>>

\* main: wg.Wait()
MainWait ==
    /\ mainPC = "wait"
    /\ WgWaitReturns(wgCount)
    /\ mainPC' = "all_completed"
    /\ UNCHANGED <<configVars, queueVars, mainI, closerPC, wgCount, workerVars, held,
                   rwVars, logVars>>

\* displaySummary: opening or reading results.txt may fail, which is logged
MainSummary ==
    /\ mainPC = "summary"
    /\ \E ioError \in BOOLEAN : mainPC' = IF ioError THEN "summary_err" ELSE "rw_close"
    /\ UNCHANGED <<configVars, queueVars, mainI, closerPC, wgCount, workerVars, held,
                   rwVars, logVars>>

\* deferred resultWriter.Close(): rw.mutex.Lock()
MainResultCloseLock ==
    /\ mainPC = "rw_close"
    /\ "rw" \notin held[Main]
    /\ MutexLockable(rwMutex)
    /\ rwMutex' = TRUE
    /\ held' = [held EXCEPT ![Main] = @ \cup {"rw"}]
    /\ UNCHANGED <<configVars, queueVars, mainVars, closerPC, wgCount, workerVars,
                   rwOpen, results, logVars>>

\* deferred resultWriter.Close(): rw.file.Close() and the deferred Unlock
MainResultClose ==
    /\ mainPC = "rw_close"
    /\ "rw" \in held[Main]
    /\ rwOpen' = FALSE
    /\ rwMutex' = FALSE
    /\ held' = [held EXCEPT ![Main] = @ \ {"rw"}]
    /\ mainPC' = "shutdown"
    /\ UNCHANGED <<configVars, queueVars, mainI, closerPC, wgCount, workerVars, results, logVars>>

\* deferred logger.Close(): l.mutex.Lock()
MainLoggerCloseLock ==
    /\ mainPC = "logger_close"
    /\ LogLock(Main)
    /\ UNCHANGED <<configVars, queueVars, mainVars, closerPC, wgCount, workerVars, rwVars>>

\* deferred logger.Close(): l.file.Close() and the deferred Unlock; main returns
MainLoggerClose ==
    /\ mainPC = "logger_close"
    /\ "log" \in held[Main]
    /\ logOpen' = FALSE
    /\ logMutex' = FALSE
    /\ held' = [held EXCEPT ![Main] = @ \ {"log"}]
    /\ mainPC' = "done"
    /\ UNCHANGED <<configVars, queueVars, mainI, closerPC, wgCount, workerVars, rwVars, log, stderr>>

----------------------------------------------------------------------------
(* the closer goroutine *)

\* Faulty closer: the timer runs from the start of main, not from the point
\* after the workers were started.
CloserCloseFromStart ==
    /\ closerPC # "done"
    /\ mainPC # "done"
    /\ IF closed
       THEN panicked' = TRUE /\ UNCHANGED closed
       ELSE closed' = TRUE /\ UNCHANGED panicked
    /\ closerPC' = "done"
    /\ UNCHANGED <<configVars, tasks, delivered, mainVars, wgCount, workerVars, held,
                   rwVars, logVars>>

\* taskQueue.Close() after the sleep; closing a closed channel panics.
\* The goroutine lives only while main has not returned.
CloserClose ==
    /\ closerPC = "sleeping"
    /\ mainPC # "done"
    /\ IF closed
       THEN panicked' = TRUE /\ UNCHANGED closed
       ELSE closed' = TRUE /\ UNCHANGED panicked
    /\ closerPC' = "done"
    /\ UNCHANGED <<configVars, tasks, delivered, mainVars, wgCount, workerVars, held,
                   rwVars, logVars>>

----------------------------------------------------------------------------
(* the system *)

Init ==
    /\ NUM_WORKERS \in 1..MaxLoad
    /\ NUM_TASKS \in 0..MaxLoad
    /\ NUM_TASKS + 2 * NUM_WORKERS <= MaxLoad
    /\ tasks = <<>>
    /\ closed = FALSE
    /\ panicked = FALSE
    /\ mainPC = "init"
    /\ mainI = 1
    /\ closerPC = "unborn"
    /\ wgCount = 0
    /\ pc = [w \in Workers |-> "unborn"]
    /\ task = [w \in Workers |-> ZeroTask]
    /\ result = [w \in Workers |-> NoResult]
    /\ tasksProcessed = [w \in Workers |-> 0]
    /\ held = [t \in Threads |-> {}]
    /\ rwMutex = FALSE
    /\ rwOpen = TRUE
    /\ results = <<>>
    /\ logMutex = FALSE
    /\ logOpen = TRUE
    /\ log = <<>>
    /\ stderr = 0
    /\ interrupted = [w \in Workers |-> FALSE]
    /\ delivered = <<>>

WorkerStep(w) ==
    \/ WorkerLogLock(w)
    \/ WorkerLogWrite(w)
    \/ WorkerGetTask(w)
    \/ WorkerProcessTask(w)
    \/ WorkerWriteResultLock(w)
    \/ WorkerWriteResultWrite(w)
    \/ WorkerDone(w)

MainStep ==
    \/ MainLogLock
    \/ MainLogWrite
    \/ MainAddTask
    \/ MainPreloadDone
    \/ MainSpawn
    \/ MainSpawnCloser
    \/ MainWait
    \/ MainSummary
    \/ MainResultCloseLock
    \/ MainResultClose
    \/ MainLoggerCloseLock
    \/ MainLoggerClose

Next ==
    \/ MainStep
    \/ CloserClose
    \/ \E w \in Workers : WorkerStep(w)

Spec == Init /\ [][Next]_vars

\* The scheduler runs every goroutine that can take a step.
FairSpec ==
    /\ Spec
    /\ WF_vars(MainStep)
    /\ WF_vars(CloserClose)
    /\ \A w \in 1..MaxLoad : WF_vars(w \in Workers /\ WorkerStep(w))

----------------------------------------------------------------------------
(* Failing writes to processing.log *)

\* Log when l.file.WriteString fails on the open file (disk full, I/O error):
\* the entry is lost, log.Printf reports "ERROR: Failed to write log" on
\* standard error, the deferred Unlock runs and Log returns (it has no result).
LogWriteFails(t) ==
    /\ "log" \in held[t]
    /\ logOpen
    /\ stderr < MaxLogFaults
    /\ stderr' = stderr + 1
    /\ logMutex' = FALSE
    /\ held' = [held EXCEPT ![t] = @ \ {"log"}]
    /\ UNCHANGED <<logOpen, log>>

\* A Log call of worker w whose write fails: Worker.Run goes on to the
\* statement after the call.
WorkerLogWriteFails(w) ==
    /\ pc[w] \in WorkerLogSites
    /\ LogWriteFails(w)
    /\ pc' = [pc EXCEPT ![w] = AfterLog(pc[w])]
    /\ task' = [task EXCEPT ![w] = IF AfterLog(pc[w]) = "fetch" THEN ZeroTask ELSE @]
    /\ result' = [result EXCEPT ![w] = IF AfterLog(pc[w]) = "fetch" THEN NoResult ELSE @]
    /\ UNCHANGED <<configVars, interrupted, queueVars, mainVars, closerPC, wgCount, tasksProcessed, rwVars>>

\* A Log call of main whose write fails: main goes on to the statement after
\* the call.
MainLogWriteFails ==
    /\ mainPC \in MainLogSites
    /\ LogWriteFails(Main)
    /\ mainPC' = MainAfterLog(mainPC)
    /\ mainI' = IF mainPC \in {"task_added", "starting"} THEN
                   (IF mainPC = "starting" THEN 1 ELSE mainI + 1)
                ELSE mainI
    /\ UNCHANGED <<configVars, queueVars, closerPC, wgCount, workerVars, rwVars>>

InitLogFault ==
    /\ Init
    /\ NUM_TASKS + 2 * NUM_WORKERS <= FaultLoad

NextLogFault ==
    \/ Next
    \/ MainLogWriteFails
    \/ \E w \in Workers : WorkerLogWriteFails(w)

SpecLogFault == InitLogFault /\ [][NextLogFault]_vars

----------------------------------------------------------------------------
(* Properties *)

\* The positions of main after wg.Wait() has returned.
AfterWait == {"all_completed", "summary", "summary_err", "rw_close", "shutdown",
              "logger_close", "done"}

\* The positions of a worker after it has left the processing loop.
OutOfLoop == {"empty", "finished", "wg_done", "terminated"}

\* The entries of the log that report a per-task failure.
ErrorEntries == {i \in DOMAIN log : log[i].msg \in {"compute_err", "write_err"}}

\* The lines of results.txt that carry task id.
LinesOf(id) == {i \in DOMAIN results : results[i].ID = id}

\* The threads inside the critical section of mutex m.
Inside(m) == {t \in Threads : m \in held[t]}

\* C1: no task id is handed out twice: the successful dequeues return pairwise
\* different tasks, each one a task the Coordinator enqueued, and no two
\* workers hold the same task.
C1_NoTaskHandedOutTwice ==
    /\ \A i, j \in DOMAIN delivered :
         i # j => delivered[i][1] # delivered[j][1]
    /\ \A i \in DOMAIN delivered : delivered[i][1] \in 1..NUM_TASKS
    /\ \A v, w \in Workers :
         (v # w /\ task[v] # ZeroTask) => task[v].ID # task[w].ID

\* C1 witness: two workers competed for the tasks, every task has been handed
\* out and one worker is inside a dequeue that found a task.
C1_Witness ==
    /\ NUM_WORKERS >= 2
    /\ NUM_TASKS >= 1
    /\ Len(delivered) = NUM_TASKS
    /\ \E v, w \in Workers : v # w /\ pc[v] = "processing" /\ pc[w] = "fetch"

\* C2: in every state, failures included, the task ids of the result lines are
\* ids of 1..NUM_TASKS and no id is on more than one line.
C2_ResultIdsUnique ==
    \A i \in DOMAIN results :
        /\ results[i].ID \in 1..NUM_TASKS
        /\ \A j \in DOMAIN results : i # j => results[i].ID # results[j].ID

\* C2 witness: a run with a failed compute and a failed write that also wrote
\* a result line.
C2_Witness ==
    /\ Len(results) >= 1
    /\ \E i, j \in DOMAIN log : log[i].msg = "compute_err" /\ log[j].msg = "write_err"

\* C3: in a run without per-task failures, once wg.Wait() has returned the
\* result file holds exactly NUM_TASKS lines, exactly one per task id.
C3_AllTasksProcessedOnce ==
    (mainPC \in AfterWait /\ ErrorEntries = {}) =>
        /\ Len(results) = NUM_TASKS
        /\ \A id \in 1..NUM_TASKS : Cardinality(LinesOf(id)) = 1

\* C3 witness: wg.Wait() has just returned in a failure-free run of two workers
\* with a task to process.
C3_Witness ==
    /\ mainPC = "all_completed"
    /\ ErrorEntries = {}
    /\ NUM_WORKERS >= 2
    /\ NUM_TASKS >= 1
    /\ Len(results) = NUM_TASKS

\* C4: under weak fairness of main, the closer and every worker, every run
\* terminates: all workers reach terminated and main returns.
C4_Terminates ==
    <>(mainPC = "done" /\ \A w \in Workers : pc[w] = "terminated")

\* C4 witness: a run without tasks has terminated with two workers.
C4_Witness ==
    /\ NUM_TASKS = 0
    /\ NUM_WORKERS >= 2
    /\ mainPC = "done"
    /\ \A w \in Workers : pc[w] = "terminated"

C6_WaitCountsWorkers ==
    /\ wgCount >= 0
    /\ wgCount = Cardinality({w \in Workers : pc[w] \notin {"unborn", "terminated"}})
    /\ mainPC \in {"wait"} \cup AfterWait =>
         wgCount = NUM_WORKERS - Cardinality({w \in Workers : pc[w] = "terminated"})
    /\ mainPC \in AfterWait =>
         /\ wgCount = 0
         /\ \A w \in Workers : pc[w] = "terminated"

\* C6 witness: wg.Wait() has returned in a run of two workers in which a task
\* failed.
C6_Witness ==
    /\ mainPC = "all_completed"
    /\ NUM_WORKERS >= 2
    /\ ErrorEntries # {}

\* C7: a worker leaves its loop only from a GetTask that reported "no task";
\* after a failed compute or a failed result write it goes on to the next
\* GetTask.
C7_ExitOnlyOnNoTask ==
    [][\A w \in Workers :
         /\ (pc[w] \notin OutOfLoop /\ pc'[w] \in OutOfLoop) =>
               /\ pc[w] = "fetch"
               /\ ~GetTask(tasks, closed).ok
               /\ pc'[w] = "empty"
         /\ (pc[w] \in {"compute_err", "write_err"} /\ pc'[w] # pc[w]) =>
               pc'[w] = "fetch"
         /\ (pc[w] = "compute" /\ pc'[w] # pc[w]) =>
               pc'[w] \in {"compute_err", "emit"}
         /\ (pc[w] = "emit" /\ pc'[w] # pc[w]) =>
               pc'[w] \in {"write_err", "completed"}]_vars

\* C7 witness: a worker whose compute failed on one task and whose result write
\* failed on another is processing a further task.
C7_Witness ==
    \E w \in Workers :
        /\ pc[w] = "compute"
        /\ \E i, j \in DOMAIN log :
             /\ log[i].who = w /\ log[i].msg = "compute_err"
             /\ log[j].who = w /\ log[j].msg = "write_err"

\* C8: GetTask reports "no task" only when the channel is closed and empty; on
\* an open, empty channel the caller cannot proceed and holds no mutex that
\* another thread could wait for; when a task is buffered the call can proceed
\* and returns the buffered head.
C8_DequeueContract ==
    /\ [](\A w \in Workers :
            /\ (pc[w] = "fetch" /\ tasks = <<>> /\ ~closed) =>
                  (~ENABLED WorkerStep(w) /\ held[w] = {})
            /\ (pc[w] = "fetch" /\ tasks # <<>>) => ENABLED WorkerGetTask(w))
    /\ [][\A w \in Workers :
            (pc[w] = "fetch" /\ pc'[w] # "fetch") =>
               IF tasks # <<>>
               THEN pc'[w] = "processing" /\ task'[w] = Head(tasks) /\ tasks' = Tail(tasks)
               ELSE closed /\ pc'[w] = "empty" /\ task'[w] = ZeroTask]_vars

\* C8 witness: a worker waits in GetTask on the open, empty channel while the
\* other worker computes.
C8_Witness ==
    /\ tasks = <<>>
    /\ ~closed
    /\ \E v, w \in Workers : v # w /\ pc[v] = "fetch" /\ pc[w] = "compute"

\* C9: Close leaves the buffered tasks in the channel; from then on the
\* buffer only shrinks, by the head a successful GetTask returns; delivered
\* and buffered tasks together stay NUM_TASKS, so exactly the tasks buffered
\* at Close are still delivered; and once the closed channel is empty it stays
\* so and every GetTask reports "no task".
C9_CloseThenDrain ==
    /\ [](closed => Len(delivered) + Len(tasks) = NUM_TASKS)
    /\ [][(~closed /\ closed') => tasks' = tasks]_vars
    /\ [][closed =>
            /\ closed'
            /\ tasks' = tasks \/ (tasks # <<>> /\ tasks' = Tail(tasks))
            /\ \A w \in Workers :
                 (pc[w] = "fetch" /\ pc'[w] # "fetch") =>
                    IF tasks # <<>>
                    THEN /\ pc'[w] = "processing"
                         /\ task'[w] = Head(tasks)
                         /\ delivered' = Append(delivered, <<Head(tasks).ID, w>>)
                    ELSE pc'[w] = "empty" /\ tasks' = <<>> /\ delivered' = delivered]_vars

\* C9 witness: the channel was closed while tasks were buffered: the last task
\* is still buffered and a worker holds the one before it.
C9_Witness ==
    /\ closed
    /\ Len(tasks) = 1
    /\ \E w \in Workers : pc[w] = "processing" /\ task[w].ID = NUM_TASKS - 1
    /\ \E i \in DOMAIN delivered : delivered[i][1] = NUM_TASKS - 1
    /\ NUM_TASKS >= 2

\* C10: in every state after wg.Wait() has returned the channel is closed and
\* empty, and a GetTask reports "no task" without blocking.
C10_DrainedAfterWait ==
    mainPC \in AfterWait =>
        /\ closed
        /\ tasks = <<>>
        /\ GetTask(tasks, closed) = [blocked |-> FALSE, ok |-> FALSE,
                                     task |-> ZeroTask, rest |-> <<>>]

\* C10 witness: main has returned after a run in which tasks were dequeued.
C10_Witness ==
    /\ mainPC = "done"
    /\ NUM_TASKS >= 2
    /\ Len(delivered) = NUM_TASKS
    /\ closed
    /\ tasks = <<>>

\* Every worker has returned from Worker.Run.
AllTerminated == \A w \in Workers : pc[w] = "terminated"

\* The entries of the log that report a failed result write.
WriteErrors == {i \in DOMAIN log : log[i].msg = "write_err"}

\* The sum of the counts reported by the "finished" entries among the first n
\* entries of the log.
RECURSIVE SumFinished(_)
SumFinished(n) ==
    IF n = 0 THEN 0
    ELSE SumFinished(n - 1) + (IF log[n].msg = "finished" THEN log[n].arg ELSE 0)

\* C11: the two sinks are closed by main only, and only when every worker has
\* terminated: while a sink is closed no worker is inside, or still to call,
\* WriteResult or Log.
C11_CloseAfterWorkers ==
    /\ []((~rwOpen \/ ~logOpen) => (AllTerminated /\ \A w \in Workers : held[w] = {}))
    /\ [][(rwOpen /\ ~rwOpen') =>
            (mainPC = "rw_close" /\ held[Main] = {"rw"} /\ AllTerminated)]_vars
    /\ [][(logOpen /\ ~logOpen') =>
            (mainPC = "logger_close" /\ held[Main] = {"log"} /\ AllTerminated)]_vars

\* C11 witness: both sinks are closed after a run of two workers that wrote a
\* result line.
C11_Witness ==
    /\ ~rwOpen
    /\ ~logOpen
    /\ NUM_WORKERS >= 2
    /\ Len(results) >= 1

\* C12: the channel is closed only by the closer, at most once and only after
\* preload has returned and the workers were started, and once main is past
\* wg.Wait() it has been closed; nothing is sent on the closed channel and it
\* is not closed twice, so the runtime never panics.
C12_CloseOnceAfterPreload ==
    /\ [](/\ ~panicked
          /\ mainPC # "crashed"
          /\ closed <=> closerPC = "done"
          /\ closed => (mainPC \in {"wait"} \cup AfterWait /\ mainI > NUM_WORKERS)
          /\ closed => Len(delivered) + Len(tasks) = NUM_TASKS
          /\ mainPC \in AfterWait => closed)
    /\ [][closed => (closed' /\ closerPC' = "done")]_vars
    /\ [][(~closed /\ closed') => (closerPC = "sleeping" /\ tasks' = tasks)]_vars

\* C12 witness: the timer has fired while two tasks were still buffered.
C12_Witness ==
    /\ closed
    /\ closerPC = "done"
    /\ Len(tasks) >= 2

\* C13 as claimed: when all workers have terminated, the counts reported in
\* the "finished" entries add up to the number of result lines.
C13_ReportedEqualsLines ==
    AllTerminated => SumFinished(Len(log)) = Len(results)

\* C13 as amended: when all workers have terminated, the counts reported in
\* the "finished" entries add up to the number of result lines plus the number
\* of failed result writes (the counter is incremented before the write).
C13_ReportedEqualsLinesPlusWriteErrors ==
    AllTerminated =>
        /\ SumFinished(Len(log)) = Len(results) + Cardinality(WriteErrors)
        /\ \A w \in Workers :
             \E i \in DOMAIN log :
                log[i] = Entry("finished", w, tasksProcessed[w])

\* C13 witness: all workers have terminated in a run with a result line and a
\* failed result write.
C13_Witness ==
    /\ AllTerminated
    /\ WriteErrors # {}
    /\ Len(results) >= 1

\* C14: a failed result write adds no line and puts nothing back in the
\* channel; the worker logs an error entry with its own id and the task's id
\* and goes on to the next GetTask; the task is never written or dequeued
\* again; and after wg.Wait() the file holds one line per task that did not
\* fail (NUM_TASKS - 1 lines after one failure).
C14_WriteFailureAbandonsTask ==
    /\ [](\A i \in WriteErrors :
            /\ log[i].who \in Workers
            /\ LinesOf(log[i].arg) = {}
            /\ \A k \in DOMAIN tasks : tasks[k].ID # log[i].arg
            /\ Cardinality({k \in DOMAIN delivered : delivered[k][1] = log[i].arg}) = 1
            /\ <<log[i].arg, log[i].who>> \in {delivered[k] : k \in DOMAIN delivered})
    /\ [](mainPC \in AfterWait =>
            Len(results) = NUM_TASKS - Cardinality(ErrorEntries))
    /\ [][\A w \in Workers :
            /\ (pc[w] = "emit" /\ pc'[w] = "write_err") =>
                  (results' = results /\ tasks' = tasks /\ task'[w] = task[w])
            /\ (pc[w] = "write_err" /\ pc'[w] # "write_err") =>
                  /\ log' = Append(log, Entry("write_err", w, task[w].ID))
                  /\ pc'[w] = "fetch"
                  /\ tasks' = tasks]_vars

\* C14 witness: after wg.Wait() of a run whose only failure was one failed
\* result write, the same worker has completed a later task.
C14_Witness ==
    /\ mainPC \in AfterWait
    /\ Cardinality(ErrorEntries) = 1
    /\ Len(results) = NUM_TASKS - 1
    /\ \E i, j \in DOMAIN log :
         /\ i < j
         /\ log[i].msg = "write_err"
         /\ log[j].msg = "completed"
         /\ log[j].who = log[i].who
         /\ log[j].arg > log[i].arg

\* C16: no thread ever holds more than one mutex; a thread that holds one is
\* at the write of that sink, which it can always perform, and is not waiting
\* for the other mutex or for the channel.
C16_OneGuardAtATime ==
    /\ \A t \in Threads : Cardinality(held[t]) <= 1
    /\ \A w \in Workers :
         /\ "rw" \in held[w] => (pc[w] = "emit" /\ ENABLED WorkerWriteResultWrite(w))
         /\ "log" \in held[w] => (pc[w] \in WorkerLogSites /\ ENABLED WorkerLogWrite(w))
         /\ held[w] # {} =>
              /\ ~ENABLED WorkerLogLock(w)
              /\ ~ENABLED WorkerWriteResultLock(w)
              /\ ~ENABLED WorkerGetTask(w)
    /\ "rw" \in held[Main] => mainPC = "rw_close"
    /\ "log" \in held[Main] => mainPC \in MainLogSites \cup {"logger_close"}

\* C16 witness: one worker is inside WriteResult while the other is inside Log.
C16_Witness ==
    \E v, w \in Workers : v # w /\ held[v] = {"rw"} /\ held[w] = {"log"}

\* C17: every result line of task i records Original = i*100, Processed =
\* Original*2 + i and the worker that dequeued the task; a failure-free run
\* with one worker and one task leaves exactly the line with Processed = 201.
C17_ResultLineContents ==
    /\ \A i \in DOMAIN results :
         /\ results[i].Original = results[i].ID * 100
         /\ results[i].Processed = results[i].Original * 2 + results[i].ID
         /\ results[i].Worker \in Workers
         /\ <<results[i].ID, results[i].Worker>> \in {delivered[k] : k \in DOMAIN delivered}
    /\ (NUM_WORKERS = 1 /\ NUM_TASKS = 1 /\ mainPC \in AfterWait /\ ErrorEntries = {}) =>
         results = <<[ID |-> 1, Worker |-> 1, Original |-> 100, Processed |-> 201]>>

\* C17 witness: the run with one worker and one task has ended with its line.
C17_Witness ==
    /\ NUM_WORKERS = 1
    /\ NUM_TASKS = 1
    /\ mainPC = "done"
    /\ Len(results) = 1
    /\ results[1].Processed = 201

\* The entries worker w wrote to the log, in order.
WorkerLog(w) == SelectSeq(log, LAMBDA e : e.who = w)

\* The entries of the log with message msg.
EntriesWith(msg) == {i \in DOMAIN log : log[i].msg = msg}

\* C18: in the log, each worker's first entry is its only "started" entry, its
\* "empty" entry comes after all its task entries and is followed only by its
\* "finished" entry, which is its last; a terminated worker has all three; so
\* after wg.Wait() the log holds NUM_WORKERS entries of each kind, and with
\* no tasks every worker reports 0.
C18_WorkerLogShape ==
    /\ \A w \in Workers :
         LET L == WorkerLog(w) IN
           /\ Len(L) > 0 => L[1].msg = "started"
           /\ \A i \in 2..Len(L) : L[i].msg # "started"
           /\ \A i \in 1..Len(L) :
                /\ L[i].msg = "empty" => i >= Len(L) - 1
                /\ L[i].msg = "finished" =>
                     (i = Len(L) /\ i > 1 /\ L[i - 1].msg = "empty")
           /\ pc[w] = "terminated" =>
                (Len(L) >= 3 /\ L[Len(L)].msg = "finished")
    /\ mainPC \in AfterWait =>
         /\ Cardinality(EntriesWith("started")) = NUM_WORKERS
         /\ Cardinality(EntriesWith("empty")) = NUM_WORKERS
         /\ Cardinality(EntriesWith("finished")) = NUM_WORKERS
         /\ NUM_TASKS = 0 => \A i \in EntriesWith("finished") : log[i].arg = 0

\* C18 witness: wg.Wait() has returned in a run of two workers and a task.
C18_Witness ==
    /\ mainPC \in AfterWait
    /\ NUM_WORKERS >= 2
    /\ NUM_TASKS >= 1
    /\ Cardinality(EntriesWith("finished")) = 2

\* Worker w returns from a WriteResult call whose write failed.
FailedWriteResult(w) ==
    /\ pc[w] = "emit"
    /\ "rw" \in held[w]
    /\ "rw" \notin held'[w]
    /\ results' = results

\* Thread t returns from a Log call whose write failed.
FailedLog(t) ==
    /\ "log" \in held[t]
    /\ "log" \notin held'[t]
    /\ logOpen' = logOpen
    /\ log' = log

\* C20 as stated: a failed write of either sink is reported to the caller as
\* an error outcome (the caller does not go on as after a successful append),
\* and the process does not crash.
C20_SinkFailureReported ==
    /\ [][/\ \A w \in Workers :
               /\ FailedWriteResult(w) => pc'[w] = "write_err"
               /\ FailedLog(w) => pc'[w] # AfterLog(pc[w])
          /\ FailedLog(Main) => mainPC' # MainAfterLog(mainPC)]_vars
    /\ [](~panicked /\ mainPC # "crashed")

\* C20 amended: a failed WriteResult is returned to the worker as an error
\* (the worker takes its error branch); a failed Log write is reported on
\* standard error only, Log returns nothing and its caller goes on exactly as
\* after a successful write; the process does not crash in either case.
C20_WriteResultReportsLogSwallows ==
    /\ [][/\ \A w \in Workers :
               /\ FailedWriteResult(w) => (pc'[w] = "write_err" /\ stderr' = stderr)
               /\ FailedLog(w) => (pc'[w] = AfterLog(pc[w]) /\ stderr' = stderr + 1)
          /\ FailedLog(Main) =>
               (mainPC' = MainAfterLog(mainPC) /\ stderr' = stderr + 1)]_vars
    /\ [](~panicked /\ mainPC # "crashed")

\* C20 witness: a run has ended in which a result write failed (and was
\* logged by the worker) and a log write failed.
C20_Witness ==
    /\ mainPC = "done"
    /\ stderr = 1
    /\ WriteErrors # {}
    /\ ~panicked

----------------------------------------------------------------------------
(* The Java implementation, java/DataProcessingSystem.java.                *)
(* The same state is used: tasks is the LinkedList of TaskQueue (the class *)
(* has no close, so closed stays FALSE), wgCount is the CountDownLatch,    *)
(* rwMutex and logMutex are the ReentrantLocks of ResultWriter and Logger, *)
(* rwOpen and logOpen tell whether their BufferedWriters are open.         *)

\* TaskQueue.getTask: queue.poll() under the queue's lock; null (here the
\* zero Task with ok = FALSE) when the queue is empty.  It never blocks.
getTask(buf) ==
    IF Len(buf) > 0
    THEN [ok |-> TRUE, task |-> Head(buf), rest |-> Tail(buf)]
    ELSE [ok |-> FALSE, task |-> ZeroTask, rest |-> buf]

\* The string processTask returns when Thread.sleep was interrupted:
\* "Task <id> interrupted".
InterruptedLine(t) == [ID |-> t.ID, Interrupted |-> TRUE]

\* The places of Worker.run and Worker.processTask that call logger.log.
JavaWorkerLogSites == {"started", "processing", "interrupted_err", "write_err",
                       "completed", "empty", "finished"}

\* The entry logged at each place; "Worker-N interrupted during processing"
\* names no task.
JavaWorkerEntry(w) ==
    IF pc[w] = "finished" THEN Entry("finished", w, tasksProcessed[w])
    ELSE IF pc[w] \in {"started", "empty", "interrupted_err"} THEN Entry(pc[w], w, 0)
    ELSE Entry(pc[w], w, task[w].ID)

\* Where the worker goes after the log call of each place.
JavaAfterLog(site) ==
    CASE site = "started"         -> "fetch"
      [] site = "processing"      -> "compute"
      [] site = "interrupted_err" -> "emit"      \* processTask returns its string
      [] site = "write_err"       -> "fetch"
      [] site = "completed"       -> "fetch"
      [] site = "empty"           -> "finished"  \* break, then the finally block
      [] site = "finished"        -> "wg_done"

JavaWorkerLogLock(w) ==
    /\ pc[w] \in JavaWorkerLogSites
    /\ LogLock(w)
    /\ UNCHANGED <<configVars, queueVars, mainVars, closerPC, wgCount, workerVars, rwVars>>

\* logger.log: the write (an IOException is caught inside and printed on
\* System.err) and the unlock; after the log call of processTask's catch
\* block processTask returns and run() executes tasksProcessed++.
JavaWorkerLogWrite(w) ==
    /\ pc[w] \in JavaWorkerLogSites
    /\ LogWrite(w, JavaWorkerEntry(w))
    /\ pc' = [pc EXCEPT ![w] = JavaAfterLog(pc[w])]
    /\ tasksProcessed' = [tasksProcessed EXCEPT ![w] =
                             IF pc[w] = "interrupted_err" THEN @ + 1 ELSE @]
    /\ task' = [task EXCEPT ![w] = IF JavaAfterLog(pc[w]) = "fetch" THEN ZeroTask ELSE @]
    /\ result' = [result EXCEPT ![w] = IF JavaAfterLog(pc[w]) = "fetch" THEN NoResult ELSE @]
    /\ UNCHANGED <<configVars, interrupted, queueVars, mainVars, closerPC, wgCount, rwVars>>

\* task = taskQueue.getTask(); if (task == null) { log; break; }
JavaWorkerGetTask(w) ==
    /\ pc[w] = "fetch"
    /\ LET r == getTask(tasks) IN
         /\ tasks' = r.rest
         /\ task' = [task EXCEPT ![w] = r.task]
         /\ pc' = [pc EXCEPT ![w] = IF r.ok THEN "processing" ELSE "empty"]
         /\ delivered' = IF r.ok THEN Append(delivered, <<r.task.ID, w>>) ELSE delivered
    /\ UNCHANGED <<configVars, interrupted, closed, panicked, mainVars, closerPC, wgCount,
                   result, tasksProcessed, held, rwVars, logVars>>

\* String result = processTask(task); tasksProcessed++.  Thread.sleep throws
\* InterruptedException when the thread's interrupt status is set; the catch
\* block logs, sets the status again and returns "Task <id> interrupted".
JavaWorkerProcessTask(w) ==
    /\ pc[w] = "compute"
    /\ IF interrupted[w]
       THEN /\ pc' = [pc EXCEPT ![w] = "interrupted_err"]
            /\ result' = [result EXCEPT ![w] = InterruptedLine(task[w])]
            /\ UNCHANGED tasksProcessed
       ELSE /\ pc' = [pc EXCEPT ![w] = "emit"]
            /\ result' = [result EXCEPT ![w] = processTask(w, task[w]).result]
            /\ tasksProcessed' = [tasksProcessed EXCEPT ![w] = @ + 1]
    /\ UNCHANGED <<configVars, interrupted, queueVars, mainVars, closerPC, wgCount, task, held,
                   rwVars, logVars>>

\* resultWriter.writeResult: lock.lock()
JavaWorkerWriteResultLock(w) ==
    /\ pc[w] = "emit"
    /\ "rw" \notin held[w]
    /\ MutexLockable(rwMutex)
    /\ rwMutex' = TRUE
    /\ held' = [held EXCEPT ![w] = @ \cup {"rw"}]
    /\ UNCHANGED <<configVars, queueVars, mainVars, closerPC, wgCount, workerVars,
                   rwOpen, results, logVars>>

\* resultWriter.writeResult: write, newLine, flush, and the unlock of the
\* finally block; an IOException (always, once the writer is closed) reaches
\* the catch block of run().
JavaWorkerWriteResultWrite(w) ==
    /\ pc[w] = "emit"
    /\ "rw" \in held[w]
    /\ \E ioError \in BOOLEAN :
         LET err == ioError \/ ~rwOpen IN
           /\ results' = IF err THEN results ELSE Append(results, result[w])
           /\ pc' = [pc EXCEPT ![w] = IF err THEN "write_err" ELSE "completed"]
    /\ rwMutex' = FALSE
    /\ held' = [held EXCEPT ![w] = @ \ {"rw"}]
    /\ UNCHANGED <<configVars, interrupted, queueVars, mainVars, closerPC, wgCount, task, result,
                   tasksProcessed, rwOpen, logVars>>

\* finally { ...; latch.countDown(); }
JavaWorkerDone(w) ==
    /\ pc[w] = "wg_done"
    /\ wgCount' = IF wgCount > 0 THEN wgCount - 1 ELSE 0
    /\ pc' = [pc EXCEPT ![w] = "terminated"]
    /\ UNCHANGED <<configVars, interrupted, queueVars, mainVars, closerPC, task, result,
                   tasksProcessed, held, rwVars, logVars>>

\* The places of main, preloadTasks and displaySummary that call logger.log.
JavaMainLogSites == {"init", "task_added", "starting", "all_completed",
                     "main_interrupted", "shutdown_interrupted", "summary_err", "shutdown"}

JavaMainEntry ==
    IF mainPC = "task_added" THEN Entry("task_added", Main, mainI)
    ELSE IF mainPC = "starting" THEN Entry("starting", Main, NUM_WORKERS)
    ELSE Entry(mainPC, Main, 0)

\* Where main goes after the log call of each place; executor.shutdown()
\* follows both outcomes of latch.await() and stops no running worker.
JavaMainAfterLog(site) ==
    CASE site = "init"                 -> "add_task"
      [] site = "task_added"           -> "add_task"
      [] site = "starting"             -> "spawn"
      [] site = "all_completed"        -> "await_termination"
      [] site = "main_interrupted"     -> "await_termination"
      [] site = "shutdown_interrupted" -> "rw_close"
      [] site = "summary_err"          -> "shutdown"
      [] site = "shutdown"             -> "logger_close"

JavaMainLogLock ==
    /\ mainPC \in JavaMainLogSites
    /\ LogLock(Main)
    /\ UNCHANGED <<configVars, queueVars, mainVars, closerPC, wgCount, workerVars, rwVars>>

JavaMainLogWrite ==
    /\ mainPC \in JavaMainLogSites
    /\ LogWrite(Main, JavaMainEntry)
    /\ mainPC' = JavaMainAfterLog(mainPC)
    /\ mainI' = IF mainPC \in {"task_added", "starting"} THEN
                   (IF mainPC = "starting" THEN 1 ELSE mainI + 1)
                ELSE mainI
    /\ UNCHANGED <<configVars, queueVars, closerPC, wgCount, workerVars, rwVars>>

\* preloadTasks: taskQueue.addTask(new Task(i, ..., i * 100)); queue.offer
\* on a LinkedList always succeeds.
JavaMainAddTask ==
    /\ mainPC = "add_task"
    /\ mainI <= NUM_TASKS
    /\ tasks' = Append(tasks, PreloadTask(mainI))
    /\ mainPC' = "task_added"
    /\ UNCHANGED <<configVars, closed, panicked, delivered, mainI, closerPC, wgCount,
                   workerVars, held, rwVars, logVars>>

\* Faulty Java preload: the loop ends one iteration early.
JavaMainPreloadDoneEarly ==
    /\ mainPC = "add_task"
    /\ mainI >= NUM_TASKS
    /\ wgCount' = NUM_WORKERS
    /\ mainPC' = "starting"
    /\ UNCHANGED <<configVars, queueVars, mainI, closerPC, workerVars, held, rwVars, logVars>>

\* preloadTasks returns; new CountDownLatch(NUM_WORKERS)
JavaMainPreloadDone ==
    /\ mainPC = "add_task"
    /\ mainI > NUM_TASKS
    /\ wgCount' = NUM_WORKERS
    /\ mainPC' = "starting"
    /\ UNCHANGED <<configVars, queueVars, mainI, closerPC, workerVars, held, rwVars, logVars>>

\* executor.submit(worker): the pool has a thread for every worker
JavaMainSubmit ==
    /\ mainPC = "spawn"
    /\ mainI <= NUM_WORKERS
    /\ pc' = [pc EXCEPT ![mainI] = "started"]
    /\ mainI' = mainI + 1
    /\ UNCHANGED <<configVars, interrupted, queueVars, mainPC, closerPC, wgCount, task, result,
                   tasksProcessed, held, rwVars, logVars>>

JavaMainSubmitted ==
    /\ mainPC = "spawn"
    /\ mainI > NUM_WORKERS
    /\ mainPC' = "await"
    /\ UNCHANGED <<configVars, queueVars, mainI, closerPC, wgCount, workerVars, held,
                   rwVars, logVars>>

\* latch.await() returns: the count is zero
JavaMainAwait ==
    /\ mainPC = "await"
    /\ wgCount = 0
    /\ mainPC' = "all_completed"
    /\ UNCHANGED <<configVars, queueVars, mainI, closerPC, wgCount, workerVars, held,
                   rwVars, logVars>>

\* latch.await() throws InterruptedException: the main thread was interrupted
JavaMainAwaitInterrupted ==
    /\ mainPC = "await"
    /\ mainPC' = "main_interrupted"
    /\ UNCHANGED <<configVars, queueVars, mainI, closerPC, wgCount, workerVars, held,
                   rwVars, logVars>>

\* executor.awaitTermination(5, SECONDS) returns true: every worker has returned
JavaMainTerminated ==
    /\ mainPC = "await_termination"
    /\ AllTerminated
    /\ mainPC' = "rw_close"
    /\ UNCHANGED <<configVars, queueVars, mainI, closerPC, wgCount, workerVars, held,
                   rwVars, logVars>>

\* awaitTermination times out while a worker still runs: executor.shutdownNow()
\* interrupts every thread of the pool
JavaMainTimeout ==
    /\ mainPC = "await_termination"
    /\ ~AllTerminated
    /\ interrupted' = [w \in Workers |-> TRUE]
    /\ mainPC' = "rw_close"
    /\ UNCHANGED <<configVars, queueVars, mainI, closerPC, wgCount, pc, task, result,
                   tasksProcessed, held, rwVars, logVars>>

\* awaitTermination throws InterruptedException: shutdownNow(), then the log call
JavaMainShutdownInterrupted ==
    /\ mainPC = "await_termination"
    /\ ~AllTerminated
    /\ interrupted' = [w \in Workers |-> TRUE]
    /\ mainPC' = "shutdown_interrupted"
    /\ UNCHANGED <<configVars, queueVars, mainI, closerPC, wgCount, pc, task, result,
                   tasksProcessed, held, rwVars, logVars>>

\* resultWriter.close(): lock.lock()
JavaMainResultCloseLock ==
    /\ mainPC = "rw_close"
    /\ "rw" \notin held[Main]
    /\ MutexLockable(rwMutex)
    /\ rwMutex' = TRUE
    /\ held' = [held EXCEPT ![Main] = @ \cup {"rw"}]
    /\ UNCHANGED <<configVars, queueVars, mainVars, closerPC, wgCount, workerVars,
                   rwOpen, results, logVars>>

\* resultWriter.close(): writer.close() and the unlock; displaySummary follows
JavaMainResultClose ==
    /\ mainPC = "rw_close"
    /\ "rw" \in held[Main]
    /\ rwOpen' = FALSE
    /\ rwMutex' = FALSE
    /\ held' = [held EXCEPT ![Main] = @ \ {"rw"}]
    /\ mainPC' = "summary"
    /\ UNCHANGED <<configVars, queueVars, mainI, closerPC, wgCount, workerVars, results, logVars>>

\* displaySummary: reading results.txt may throw IOException, which is logged
JavaMainSummary ==
    /\ mainPC = "summary"
    /\ \E ioError \in BOOLEAN : mainPC' = IF ioError THEN "summary_err" ELSE "shutdown"
    /\ UNCHANGED <<configVars, queueVars, mainI, closerPC, wgCount, workerVars, held,
                   rwVars, logVars>>

\* logger.close(): lock.lock()
JavaMainLoggerCloseLock ==
    /\ mainPC = "logger_close"
    /\ LogLock(Main)
    /\ UNCHANGED <<configVars, queueVars, mainVars, closerPC, wgCount, workerVars, rwVars>>

\* logger.close(): writer.close() and the unlock; main returns
JavaMainLoggerClose ==
    /\ mainPC = "logger_close"
    /\ "log" \in held[Main]
    /\ logOpen' = FALSE
    /\ logMutex' = FALSE
    /\ held' = [held EXCEPT ![Main] = @ \ {"log"}]
    /\ mainPC' = "done"
    /\ UNCHANGED <<configVars, queueVars, mainI, closerPC, wgCount, workerVars, rwVars, log, stderr>>

InitJava ==
    /\ Init
    /\ NUM_TASKS + 2 * NUM_WORKERS <= JavaLoad

JavaWorkerStep(w) ==
    \/ JavaWorkerLogLock(w)
    \/ JavaWorkerLogWrite(w)
    \/ JavaWorkerGetTask(w)
    \/ JavaWorkerProcessTask(w)
    \/ JavaWorkerWriteResultLock(w)
    \/ JavaWorkerWriteResultWrite(w)
    \/ JavaWorkerDone(w)

JavaMainStep ==
    \/ JavaMainLogLock
    \/ JavaMainLogWrite
    \/ JavaMainAddTask
    \/ JavaMainPreloadDone
    \/ JavaMainSubmit
    \/ JavaMainSubmitted
    \/ JavaMainAwait
    \/ JavaMainAwaitInterrupted
    \/ JavaMainTerminated
    \/ JavaMainTimeout
    \/ JavaMainShutdownInterrupted
    \/ JavaMainResultCloseLock
    \/ JavaMainResultClose
    \/ JavaMainSummary
    \/ JavaMainLoggerCloseLock
    \/ JavaMainLoggerClose

NextJava ==
    \/ JavaMainStep
    \/ \E w \in Workers : JavaWorkerStep(w)

SpecJava == InitJava /\ [][NextJava]_vars

----------------------------------------------------------------------------
(* Properties of the Java implementation *)

\* The places where a worker logs a failure of the compute step (Go:
\* processTask returned an error; Java: the delay was interrupted).
ComputeErrSites == {"compute_err", "interrupted_err"}

\* A line of results.txt of the form "Task <id> interrupted".
IsInterruptedLine(r) == "Interrupted" \in DOMAIN r

\* C15: when the compute step fails for a task (also by an interruption of
\* the delay), the entry that reports it carries the task's id, the worker
\* goes from the report straight to the next fetch, and no line for the task
\* is ever appended to results.txt.
C15_ComputeFailureSkipsTask ==
    /\ [][\A w \in Workers :
            (pc[w] \in ComputeErrSites /\ pc'[w] # pc[w]) =>
               /\ pc'[w] = "fetch"
               /\ results' = results
               /\ log' # log => log'[Len(log')].arg = task[w].ID]_vars
    /\ [](\A i \in DOMAIN results : ~IsInterruptedLine(results[i]))
    /\ [](\A i \in DOMAIN log :
            log[i].msg = "compute_err" => LinesOf(log[i].arg) = {})

\* C19: the Java TaskQueue meets the contract of the channel: a fetch on an
\* empty queue that has not been closed blocks, and a worker has seen "no
\* task" (and left its loop) only if the queue was closed.
C19_JavaQueueContract ==
    \A w \in Workers :
       /\ (pc[w] = "fetch" /\ tasks = <<>> /\ ~closed) => ~ENABLED JavaWorkerGetTask(w)
       /\ pc[w] \in OutOfLoop => closed

----------------------------------------------------------------------------
(* Counting and conservation *)

\* The ids of the tasks worker w has dequeued.
DeliveredTo(w) == {delivered[k][1] : k \in {j \in DOMAIN delivered : delivered[j][2] = w}}

\* The lines of results.txt that worker w wrote.
LinesBy(w) == {i \in DOMAIN results : results[i].ID \in DeliveredTo(w)}

\* The entries of worker w that report a failed result write.
WriteErrorsBy(w) == {i \in WriteErrors : log[i].who = w}

\* C21: a task whose result write fails stays counted and is not re-queued:
\* the failing write changes neither tasksProcessed nor the queue, each
\* worker's counter equals its lines plus its failed writes (plus the task it
\* has counted and is still writing or reporting), and no task reported as
\* failed is in the queue.
C21_FailedWriteStillCounted ==
    /\ [][\A w \in Workers :
            FailedWriteResult(w) =>
               (tasksProcessed'[w] = tasksProcessed[w] /\ tasks' = tasks)]_vars
    /\ [](\A w \in Workers :
            tasksProcessed[w] = Cardinality(LinesBy(w)) + Cardinality(WriteErrorsBy(w))
                                + (IF pc[w] \in {"emit", "write_err"} THEN 1 ELSE 0))
    /\ [](\A i \in WriteErrors : \A k \in DOMAIN tasks : tasks[k].ID # log[i].arg)

\* C21 witness: a worker has terminated with a count of 1 although its only
\* result write failed.
C21_Witness ==
    \E w \in Workers :
       /\ pc[w] = "terminated"
       /\ tasksProcessed[w] = 1
       /\ LinesBy(w) = {}
       /\ WriteErrorsBy(w) # {}

----------------------------------------------------------------------------
(* Preload *)

\* The positions of main inside preloadTasks and before it.
InPreload == {"init", "add_task", "task_added"}

\* C22: the channel's capacity is the number of tasks, the buffer never holds
\* more, and main is never stuck before the workers exist: every send of the
\* preload finds room, and in every state up to the end of preload main can
\* take a step, although no worker exists yet; also with no tasks at all.
C22_PreloadNeverBlocks ==
    /\ Capacity = NUM_TASKS
    /\ Len(tasks) <= Capacity
    /\ mainPC # "crashed"
    /\ mainPC \in InPreload =>
         /\ \A w \in Workers : pc[w] = "unborn"
         /\ ~closed
         /\ ENABLED MainStep
    /\ (mainPC = "add_task" /\ mainI <= NUM_TASKS) =>
         (Len(tasks) < Capacity /\ ENABLED MainAddTask)

\* C22 witness: the last send of a preload of two tasks has filled the buffer.
C22_Witness ==
    /\ mainPC = "task_added"
    /\ NUM_TASKS >= 2
    /\ Len(tasks) = Capacity

\* The "Task i added to queue" entries of the log, in order.
AddedEntries == SelectSeq(log, LAMBDA e : e.msg = "task_added")

\* C23: the "Task i added" entries are those of tasks 1, 2, ... in this
\* order, and all of them precede the "Starting workers" entry and every
\* worker's "started" entry; once a worker has been launched, all NUM_TASKS
\* tasks have been enqueued and logged and main has left preloadTasks.
C23_PreloadBeforeWorkers ==
    /\ Len(AddedEntries) <= NUM_TASKS
    /\ \A k \in DOMAIN AddedEntries : AddedEntries[k].arg = k
    /\ \A i, j \in DOMAIN log :
         (log[i].msg = "task_added" /\ log[j].msg \in {"starting", "started"}) => i < j
    /\ (\E w \in Workers : pc[w] # "unborn") =>
         /\ mainPC \notin InPreload
         /\ Len(AddedEntries) = NUM_TASKS
         /\ Len(tasks) + Len(delivered) = NUM_TASKS

\* C23 witness: a worker has made the first dequeue of a run of two tasks.
C23_Witness ==
    /\ NUM_TASKS >= 2
    /\ Len(delivered) = 1
    /\ \E w \in Workers : pc[w] = "processing"

----------------------------------------------------------------------------
(* Order of events of one task *)

\* Thread t returns from WriteResult (workers only) or from Log.
ReturnsFromWriteResult(w) == pc[w] = "emit" /\ "rw" \in held[w] /\ pc'[w] # "emit"
ReturnsFromLog(t) == "log" \in held[t] /\ logOpen' = logOpen /\ (log' # log \/ stderr' # stderr)

\* The positions in the log of the entries msg that worker w wrote for task id.
EntriesOf(msg, w, id) ==
    {i \in DOMAIN log : log[i].msg = msg /\ log[i].who = w /\ log[i].arg = id}

\* C24: a line is appended only by a worker that has logged "processing" for
\* its task and not yet "completed"; "completed" is logged only when the
\* task's line is in results.txt, so every "completed" entry has its line;
\* and every line is followed by its worker's "completed" entry, which comes
\* after the "processing" entry (until then the worker is at that log call).
C24_ProcessingLineCompleted ==
    /\ [][\A w \in Workers :
            /\ (ReturnsFromWriteResult(w) /\ results' # results) =>
                  /\ EntriesOf("processing", w, task[w].ID) # {}
                  /\ EntriesOf("completed", w, task[w].ID) = {}
                  /\ results' = Append(results, result[w])
                  /\ result[w].ID = task[w].ID
            /\ (pc[w] = "completed" /\ pc'[w] # pc[w]) =>
                  LinesOf(task[w].ID) # {}]_vars
    /\ [](\A i \in DOMAIN log : log[i].msg = "completed" => LinesOf(log[i].arg) # {})
    /\ [](\A w \in Workers : \A l \in LinesBy(w) :
            \/ pc[w] = "completed" /\ task[w].ID = results[l].ID
            \/ \E i \in EntriesOf("processing", w, results[l].ID) :
                 \E j \in EntriesOf("completed", w, results[l].ID) : i < j)

\* C24 witness: the run has ended and the log holds the "completed" entry of
\* a task whose line is in results.txt.
C24_Witness ==
    /\ mainPC = "done"
    /\ \E i \in DOMAIN log : log[i].msg = "completed" /\ LinesOf(log[i].arg) # {}

----------------------------------------------------------------------------
(* Failure-free runs of two workers *)

\* The state after construction, for two workers.
InitPair ==
    /\ NUM_WORKERS = 2
    /\ NUM_TASKS \in 0..PairTasks
    /\ tasks = <<>>
    /\ closed = FALSE
    /\ panicked = FALSE
    /\ mainPC = "init"
    /\ mainI = 1
    /\ closerPC = "unborn"
    /\ wgCount = 0
    /\ pc = [w \in Workers |-> "unborn"]
    /\ task = [w \in Workers |-> ZeroTask]
    /\ result = [w \in Workers |-> NoResult]
    /\ tasksProcessed = [w \in Workers |-> 0]
    /\ held = [t \in Threads |-> {}]
    /\ rwMutex = FALSE
    /\ rwOpen = TRUE
    /\ results = <<>>
    /\ logMutex = FALSE
    /\ logOpen = TRUE
    /\ log = <<>>
    /\ stderr = 0
    /\ interrupted = [w \in Workers |-> FALSE]
    /\ delivered = <<>>

\* A step in which nothing fails: processTask returns no error (as in the
\* source), WriteResult returns no error, displaySummary reads the file.
NoFaultStep ==
    /\ \A w \in Workers : pc'[w] \notin {"compute_err", "write_err"}
    /\ mainPC' # "summary_err"

NextPair ==
    \/ MainStep /\ NoFaultStep
    \/ CloserClose /\ NoFaultStep
    \/ \E w \in Workers : WorkerStep(w) /\ NoFaultStep

SpecPair == InitPair /\ [][NextPair]_vars

\* C25: the queue is first in, first out over all workers together: the
\* k-th successful dequeue of the run returns task k, and the buffer holds,
\* in order, the tasks that follow the ones dequeued so far.
C25_Fifo ==
    /\ \A k \in DOMAIN delivered : delivered[k][1] = k
    /\ \A k \in DOMAIN tasks : tasks[k] = PreloadTask(Len(delivered) + k)

\* C25 witness: two workers dequeued tasks 1 and 2, in this order, and the
\* line of task 2 was written before the line of task 1.
C25_Witness ==
    /\ Len(delivered) = 2
    /\ delivered[1][2] # delivered[2][2]
    /\ Len(results) = 2
    /\ results[1].ID = 2
    /\ results[2].ID = 1

----------------------------------------------------------------------------
(* Shutdown of the Java coordinator *)

\* The positions of a worker from which it calls Logger.log no more.
PastLastLog == {"wg_done", "terminated"}

\* C26: in the Java program, also when latch.await is interrupted or
\* awaitTermination times out, the result writer is closed only when every
\* worker has left its loop (no writeResult is in flight or follows), and the
\* logger is closed only when every worker has written its last entry.
C26_JavaCloseAfterLastAppend ==
    /\ ~rwOpen => \A w \in Workers : pc[w] \in OutOfLoop /\ "rw" \notin held[w]
    /\ ~logOpen => \A w \in Workers : pc[w] \in PastLastLog /\ "log" \notin held[w]

----------------------------------------------------------------------------
(* Conservation of tasks *)

\* The positions at which a worker holds a task it has neither written nor
\* reported as failed.
InFlightSites == {"processing", "compute", "compute_err", "emit", "write_err"}

\* The ids of the tasks in the buffer, in flight, and finished.
Buffered == {tasks[k].ID : k \in DOMAIN tasks}
InFlight == {task[w].ID : w \in {v \in Workers : pc[v] \in InFlightSites}}
Finished == {results[i].ID : i \in DOMAIN results} \cup {log[i].arg : i \in ErrorEntries}

\* C27: once preload is over, every task is in exactly one place: in the
\* buffer, in flight at one worker, or finished (its line written, or
\* abandoned with a logged failure); the three numbers add up to NUM_TASKS.
C27_Conservation ==
    mainPC \notin InPreload =>
       /\ Buffered \cup InFlight \cup Finished = 1..NUM_TASKS
       /\ Buffered \cap InFlight = {}
       /\ Buffered \cap Finished = {}
       /\ InFlight \cap Finished = {}
       /\ Len(tasks) + Cardinality({w \in Workers : pc[w] \in InFlightSites})
            + Len(results) + Cardinality(ErrorEntries) = NUM_TASKS

\* C27 witness: one task is in the buffer, one in flight and one finished.
C27_Witness ==
    /\ mainPC \notin InPreload
    /\ Len(tasks) = 1
    /\ Cardinality(InFlight) = 1
    /\ Cardinality(Finished) = 1

----------------------------------------------------------------------------
(* The program with processTask as written: it returns no error *)

\* A step in which processTask returns a nil error, as it always does in the
\* source; result writes may still fail.
NoComputeFault == \A w \in Workers : pc'[w] # "compute_err"

NextSource ==
    \/ MainStep
    \/ CloserClose
    \/ \E w \in Workers : WorkerStep(w) /\ NoComputeFault

SpecSource == Init /\ [][NextSource]_vars

\* The sum of the counters of workers 1..n.
RECURSIVE SumProcessed(_)
SumProcessed(n) ==
    IF n = 0 THEN 0 ELSE tasksProcessed[n] + SumProcessed(n - 1)

\* C28: in the Go program a worker's tasksProcessed never decreases; when the
\* worker has left its loop it equals the number of tasks the worker
\* dequeued; so when all workers have terminated the counters, and the
\* counts reported in the "finished" entries, add up to NUM_TASKS, with or
\* without failed result writes.
C28_CountsSumToTasks ==
    /\ [][\A w \in Workers : tasksProcessed'[w] >= tasksProcessed[w]]_vars
    /\ [](\A w \in Workers :
            pc[w] \in OutOfLoop => tasksProcessed[w] = Cardinality(DeliveredTo(w)))
    /\ [](AllTerminated =>
            /\ SumProcessed(NUM_WORKERS) = NUM_TASKS
            /\ SumFinished(Len(log)) = NUM_TASKS)

\* C28 witness: all workers have terminated in a run of two tasks, one of
\* whose result writes failed.
C28_Witness ==
    /\ AllTerminated
    /\ NUM_TASKS = 2
    /\ Cardinality(WriteErrors) = 1
    /\ SumProcessed(NUM_WORKERS) = 2

----------------------------------------------------------------------------
(* Release of the guards *)

\* C29: every return from WriteResult and from Log, after a successful or a
\* failed write, leaves the sink's mutex unlocked and held by nobody; a mutex
\* is locked only while some thread is inside, so a worker waiting for a sink
\* that nobody is inside can always lock it.
C29_EveryReturnUnlocks ==
    /\ [][/\ \A w \in Workers :
               ReturnsFromWriteResult(w) => (~rwMutex' /\ Inside("rw")' = {})
          /\ \A t \in Threads :
               ReturnsFromLog(t) => (~logMutex' /\ Inside("log")' = {})]_vars
    /\ [](rwMutex <=> Inside("rw") # {})
    /\ [](logMutex <=> Inside("log") # {})
    /\ [](\A w \in Workers :
            /\ (pc[w] = "emit" /\ Inside("rw") = {}) => ENABLED WorkerWriteResultLock(w)
            /\ (pc[w] \in WorkerLogSites /\ Inside("log") = {}) => ENABLED WorkerLogLock(w))

\* C29 witness: a log write has failed, and a worker is inside Log again while
\* the other worker waits for the mutex.
C29_Witness ==
    /\ stderr = 1
    /\ \E v, w \in Workers :
         /\ v # w
         /\ "log" \in held[v]
         /\ pc[w] \in WorkerLogSites
         /\ "log" \notin held[w]

----------------------------------------------------------------------------
(* Shutdown of the Go coordinator *)

\* C30: "All workers completed" is appended once, after the "finished"
\* entries of all NUM_WORKERS workers; the result writer is closed after
\* that entry and before "System shutdown complete", which is appended once
\* and stays the last entry; the logger is closed after it, by the last step
\* of main, and once it is closed no thread is in or still to make a Log call
\* and the log does not change.
C30_ShutdownOrder ==
    /\ [](\A i \in EntriesWith("all_completed") :
            /\ Cardinality({j \in EntriesWith("finished") : j < i}) = NUM_WORKERS
            /\ Cardinality(EntriesWith("finished")) = NUM_WORKERS)
    /\ [](Cardinality(EntriesWith("all_completed")) <= 1)
    /\ [](~rwOpen => EntriesWith("all_completed") # {})
    /\ [](EntriesWith("shutdown") # {} =>
            (~rwOpen /\ EntriesWith("shutdown") = {Len(log)}))
    /\ [](~logOpen =>
            /\ EntriesWith("shutdown") # {}
            /\ mainPC = "done"
            /\ AllTerminated
            /\ \A t \in Threads : held[t] = {})
    /\ [][~logOpen => (log' = log /\ stderr' = stderr /\ logMutex' = logMutex)]_vars

\* C30 witness: main has returned in a run of two workers; the log ends with
\* "System shutdown complete".
C30_Witness ==
    /\ mainPC = "done"
    /\ NUM_WORKERS = 2
    /\ ~logOpen
    /\ log[Len(log)].msg = "shutdown"

----------------------------------------------------------------------------
(* Failure-free runs of one or two workers *)

\* The state after construction, for one worker.
InitSolo ==
    /\ Init
    /\ NUM_WORKERS = 1

SpecNoFault == (InitSolo \/ InitPair) /\ [][NextPair]_vars

\* C31: with one worker and no failures the lines of results.txt are those
\* of tasks 1, 2, ... in this order, all NUM_TASKS of them once the worker is
\* done; with any number of workers the lines one worker wrote are in
\* ascending order of task id (the order between workers is not fixed).
C31_LineOrder ==
    /\ NUM_WORKERS = 1 =>
         /\ \A i \in DOMAIN results : results[i].ID = i
         /\ mainPC \in AfterWait => Len(results) = NUM_TASKS
    /\ \A i, j \in DOMAIN results :
         (i < j /\ results[i].Worker = results[j].Worker) =>
            results[i].ID < results[j].ID

\* C31 witness: a run of two workers has ended with the line of task 2
\* before the line of task 1.
C31_Witness ==
    /\ mainPC = "done"
    /\ NUM_WORKERS = 2
    /\ Len(results) = 2
    /\ results[1].ID = 2
    /\ results[2].ID = 1

\* The (task id, Original, Processed) triples of the lines of results.txt.
Triples == {<<results[i].ID, results[i].Original, results[i].Processed>> : i \in DOMAIN results}

\* The triples of tasks 1..NUM_TASKS as preloadTasks numbers and processTask
\* transforms them: a function of NUM_TASKS alone.
ExpectedTriples == {<<i, i * 100, (i * 100) * 2 + i>> : i \in 1..NUM_TASKS}

\* C32: the triples in results.txt do not depend on the schedule: in every
\* failure-free run, with one or two workers and whatever the interleaving
\* and the time of the close, they are among the triples fixed by NUM_TASKS,
\* and when the run is complete they are exactly those, one line each; so
\* two complete runs with the same NUM_TASKS can differ only in the order of
\* the lines and in the worker named on each line.
C32_ScheduleIndependentTriples ==
    /\ Triples \subseteq ExpectedTriples
    /\ Cardinality(Triples) = Len(results)
    /\ mainPC \in AfterWait =>
         /\ Triples = ExpectedTriples
         /\ Len(results) = NUM_TASKS

\* C32 witness: a complete run of two tasks in which worker 2 wrote the line
\* of task 1 and worker 1 the line of task 2.
C32_Witness ==
    /\ mainPC = "done"
    /\ NUM_TASKS = 2
    /\ \E i, j \in DOMAIN results :
         /\ results[i].ID = 1 /\ results[i].Worker = 2
         /\ results[j].ID = 2 /\ results[j].Worker = 1

----------------------------------------------------------------------------
(* Early exit of the Java workers *)

\* C33: in the Java program the preload is over before any worker is
\* submitted, so a worker that has seen getTask return null (it is about to
\* log, or has logged, "found empty queue") finds all NUM_TASKS tasks
\* already dequeued and none left in the queue; this holds also in runs
\* where main is interrupted.
C33_JavaExitOnlyWhenDrained ==
    /\ (\E w \in Workers : pc[w] # "unborn") =>
         /\ mainPC \notin InPreload
         /\ Len(tasks) + Len(delivered) = NUM_TASKS
    /\ \A w \in Workers :
         pc[w] \in OutOfLoop => (tasks = <<>> /\ Len(delivered) = NUM_TASKS)
    /\ EntriesWith("empty") # {} => (tasks = <<>> /\ Len(delivered) = NUM_TASKS)

\* C33 witness: a Java worker has logged "found empty queue" after it
\* dequeued the only task of the run.
C33_Witness ==
    /\ NUM_TASKS = 1
    /\ closed = FALSE
    /\ EntriesWith("empty") # {}
    /\ \E w \in Workers : pc[w] = "finished" /\ DeliveredTo(w) = {1}

====
